---- MODULE Spec2Model ----
(***************************************************************************)
(* Model of the Dashboard controller of saturn-webui                       *)
(* (src/dashboard/Dashboard.tsx): the React state of the Dashboard         *)
(* component, the useEffect that calls fetchData, and the continuation of  *)
(* fetchData that runs when api.fetchMetrics settles.                      *)
(*                                                                         *)
(* React applies the state updates a handler makes in one batch and then   *)
(* renders; the passive effect of a render runs after the commit, before   *)
(* any other update is processed.  So a handler and the render it causes   *)
(* are one step, and the effect (fetchData) is its own step.  The clock is  *)
(* read only by pastDateRange during a render, so time advances at renders.*)
(* A render that throws unmounts the component (no error boundary in the   *)
(* file), after which React drops every update.                            *)
(***************************************************************************)
EXTENDS Integers, Sequences, FiniteSets

VARIABLES
    mounted,         \* Dashboard is rendered (FALSE once a render has thrown)
    address,         \* useParams().address, '' when the route has none
    period,          \* useState<TimePeriod>
    isLoading,       \* useState(true)
    error,           \* useState<null | string>
    metricsRes,      \* useState<MetricsResponse>
    chartDateRange,  \* useState(dateRange)
    now,             \* the clock as pastDateRange read it in the last render
    closure,         \* address and dateRange of the last render (what fetchData captured)
    effectPending,   \* the last render changed the effect's dependencies
    calls,           \* the api.fetchMetrics calls made so far, in call order
    settled,         \* the last settlement: the call (0 if none) and the promise's value
    header           \* what Header computed from metricsRes in the last render

vars == <<mounted, address, period, isLoading, error, metricsRes,
          chartDateRange, now, closure, effectPending, calls, settled,
          header>>

----------------------------------------------------------------------------
(* Bounds *)

MaxNow == 1
MaxFetches == 2
MaxRecords == 3

\* Bits of the significand of a number (53 in a JavaScript number).
Precision == 3

----------------------------------------------------------------------------
(* Values *)

Addresses == {"", "f01"}

\* enum TimePeriod of @/api.types; the spec lists SIX_MONTH as defined.
TimePeriod == {"WEEK", "TWO_WEEK", "MONTH", "SIX_MONTH"}

Null == "<null>"
UndefinedMessage == "<undefined>"
GenericMessage == "Error retrieving metrics."
Undefined == [undefined |-> TRUE]
Pending == [pending |-> TRUE]

EmptySnapshot == [earnings |-> <<>>, nodes |-> <<>>, metrics |-> <<>>]

\* What api.fetchMetrics can resolve with.
Snapshots ==
    { [earnings |-> <<[filAmount |-> 10]>>, nodes |-> <<>>, metrics |-> <<>>],
      [earnings |-> <<>>, nodes |-> <<>>,
       metrics  |-> <<[numBytes |-> 4, numRequests |-> 2]>>] }

\* What api.fetchMetrics can reject with: Error objects (with or without a
\* message) and a value that is not an Error.
ErrorRejections == { [isError |-> TRUE, message |-> m] : m \in {"boom", UndefinedMessage} }
OtherRejections == { [isError |-> FALSE, message |-> "boom"] }

----------------------------------------------------------------------------
(* Pure functions *)

UnitLength(unit) == IF unit = "week" THEN 7 ELSE 30

\* pastDateRange(unit, count) of @/date-utils, evaluated at instant t.
pastDateRange(unit, count, t) ==
    [startDate |-> t - count * UnitLength(unit), endDate |-> t]

periodToDateRange(p, t) ==
    CASE p = "WEEK"     -> pastDateRange("week", 1, t)
      [] p = "TWO_WEEK" -> pastDateRange("week", 2, t)
      [] p = "MONTH"    -> pastDateRange("month", 1, t)
      [] OTHER          -> Undefined

RECURSIVE Pow2(_)
Pow2(n) == IF n = 0 THEN 1 ELSE 2 * Pow2(n - 1)

\* The spacing of the representable numbers around x >= 0: the least power
\* of two u with x < 2^Precision * u.
RECURSIVE Ulp(_, _)
Ulp(x, u) == IF x < Pow2(Precision) * u THEN u ELSE Ulp(x, 2 * u)

\* x rounded to the nearest representable number, ties to even.
Round(x) ==
    LET u == Ulp(x, 1)
        q == x \div u
        r == x % u
    IN  IF 2 * r < u THEN q * u
        ELSE IF 2 * r > u THEN (q + 1) * u
        ELSE IF q % 2 = 0 THEN q * u ELSE (q + 1) * u

\* memo + x on JavaScript numbers: the sum, rounded to a representable number.
Add(memo, x) == Round(memo + x)

\* xs.reduce((memo, x) => memo + x, memo)
RECURSIVE Reduce(_, _)
Reduce(xs, memo) ==
    IF xs = <<>> THEN memo ELSE Reduce(Tail(xs), Add(memo, Head(xs)))

\* nodes.find(d => d.active) and nodes.find(d => !d.active)
RECURSIVE Find_Last(_, _)
Find_Last(nodes, active) ==
    IF nodes = <<>> THEN Undefined
    ELSE IF nodes[Len(nodes)].active = active THEN nodes[Len(nodes)]
    ELSE Find_Last(SubSeq(nodes, 1, Len(nodes) - 1), active)

RECURSIVE Find(_, _)
Find(nodes, active) ==
    IF nodes = <<>> THEN Undefined
    ELSE IF Head(nodes).active = active THEN Head(nodes)
    ELSE Find(Tail(nodes), active)

\* found?.count ?? 0
CountOrZero(found) == IF found = Undefined THEN 0 ELSE found.count

\* Header: the aggregates of lines 38-42.
Header(m) ==
    [totalEarnings    |-> Reduce([i \in DOMAIN m.earnings |-> m.earnings[i].filAmount], 0),
     totalBandwidth   |-> Reduce([i \in DOMAIN m.metrics |-> m.metrics[i].numBytes], 0),
     totalRetrievals  |-> Reduce([i \in DOMAIN m.metrics |-> m.metrics[i].numRequests], 0),
     numActiveNodes   |-> CountOrZero(Find(m.nodes, TRUE)),
     numInactiveNodes |-> CountOrZero(Find(m.nodes, FALSE))]

\* Header: the options of the period <select>.
options == TimePeriod

\* The dependency array of the effect for a render.
Deps(c) == <<c.address, c.dateRange.startDate, c.dateRange.endDate>>

\* The dateRange fetchData captured for a call.
RangeOf(call) == [startDate |-> call.startDate, endDate |-> call.endDate]

PendingCalls == { i \in 1..Len(calls) : calls[i].status = "pending" }

----------------------------------------------------------------------------
(* Rendering *)

\* Dashboard() is rendered with address a and period p at some instant not
\* before the previous render: the date range is derived from the clock;
\* destructuring an undefined range throws, which unmounts the component;
\* otherwise the effect is scheduled when its dependencies differ from those
\* of the previous render.
RenderAt(a, p, t) ==
    LET dateRange == periodToDateRange(p, t) IN
    /\ now' = t
    /\ IF dateRange = Undefined
       THEN /\ mounted' = FALSE
            /\ UNCHANGED <<closure, effectPending>>
       ELSE LET c == [address |-> a, dateRange |-> dateRange] IN
            /\ mounted' = TRUE
            /\ closure' = c
            /\ effectPending' = (Deps(c) # Deps(closure))

\* The instants a render can read: the clock does not go back.
Instants == now..MaxNow

Render(a, p) == \E t \in Instants : RenderAt(a, p, t)

NoRender == UNCHANGED <<mounted, closure, effectPending, now>>

----------------------------------------------------------------------------
(* Initial state: after the first render, before its effect has run *)

Init ==
    /\ mounted = TRUE
    /\ address \in Addresses
    /\ period = "WEEK"
    /\ isLoading = TRUE
    /\ error = Null
    /\ metricsRes = EmptySnapshot
    /\ now = 0
    /\ chartDateRange = periodToDateRange("WEEK", 0)
    /\ closure = [address |-> address, dateRange |-> periodToDateRange("WEEK", 0)]
    /\ effectPending = TRUE
    /\ calls = <<>>
    /\ settled = [call |-> 0, value |-> Pending]
    /\ header = Header(EmptySnapshot)

----------------------------------------------------------------------------
(* Actions *)

\* The router supplies another address.
Navigate(a) ==
    /\ mounted /\ ~effectPending
    /\ a # address
    /\ address' = a
    /\ Render(a, period)
    /\ UNCHANGED <<period, isLoading, error, metricsRes, chartDateRange,
                   calls, settled, header>>

\* Header: onChange of the <select> calls setPeriod.
SetPeriod(p) ==
    /\ mounted /\ ~effectPending
    /\ p \in options
    /\ p # period
    /\ period' = p
    /\ Render(address, p)
    /\ UNCHANGED <<address, isLoading, error, metricsRes, chartDateRange,
                   calls, settled, header>>

\* if (!address) { return }
Skips_Never(c) == FALSE

Skips(c) == c.address = ""

\* api.fetchMetrics(address, startDate, endDate): the arguments are those of
\* the render whose effect this is.
FetchCall_LaggedRange(c) ==
    [address   |-> c.address,
     startDate |-> chartDateRange.startDate,
     endDate   |-> chartDateRange.endDate,
     status    |-> "pending"]

FetchCall(c) ==
    [address   |-> c.address,
     startDate |-> c.dateRange.startDate,
     endDate   |-> c.dateRange.endDate,
     status    |-> "pending"]

\* useEffect: fetchData() up to its await; t is the instant of the render
\* that its state updates cause.
RunEffectAt(t) ==
    /\ mounted /\ effectPending
    /\ IF Skips(closure)
       THEN /\ effectPending' = FALSE
            /\ UNCHANGED <<mounted, closure, now, isLoading, error, calls>>
       ELSE /\ Len(calls) < MaxFetches
            /\ isLoading' = TRUE
            /\ error' = Null
            /\ calls' = Append(calls, FetchCall(closure))
            /\ IF isLoading # TRUE \/ error # Null
               THEN RenderAt(address, period, t)
               ELSE /\ effectPending' = FALSE
                    /\ UNCHANGED <<mounted, closure, now>>
    /\ UNCHANGED <<address, period, metricsRes, chartDateRange, settled,
                   header>>

RunEffect == \E t \in Instants : RunEffectAt(t)

\* The promise of call i settles with value v.
Settle(i, st, v) ==
    /\ calls' = [calls EXCEPT ![i].status = st]
    /\ settled' = [call |-> i, value |-> v]

\* setMetricsRes(metricsRes)
SnapshotOnResolve_LatestOnly(i, s) == IF i = Len(calls) THEN s ELSE metricsRes

SnapshotOnResolve(i, s) == s

\* setChartDateRange(dateRange): the range fetchData captured.
RangeOnResolve_Current(i) == closure.dateRange

RangeOnResolve(i) == RangeOf(calls[i])

\* fetchData after the await, the promise fulfilled with snapshot s.
\* (React drops the updates of a component that is no longer mounted, so a
\* continuation that runs after a render has thrown changes nothing.)
FetchResolveAt(i, s, t) ==
    /\ mounted /\ ~effectPending
    /\ i \in PendingCalls
    /\ Settle(i, "resolved", s)
    /\ metricsRes' = SnapshotOnResolve(i, s)
    /\ chartDateRange' = RangeOnResolve(i)
    /\ isLoading' = FALSE
    /\ RenderAt(address, period, t)
    /\ header' = Header(metricsRes')
    /\ UNCHANGED <<address, period, error>>

FetchResolve(i, s) == \E t \in Instants : FetchResolveAt(i, s, t)

\* err?.message ?? 'Error retrieving metrics.'
CaughtMessage_NoFallback(err) == err.message

CaughtMessage(err) ==
    IF err.message = UndefinedMessage THEN GenericMessage ELSE err.message

\* catch (err) { if (err instanceof Error) { setError(...) } }
ErrorAfterCatch_AnyValue(err) == CaughtMessage(err)

ErrorAfterCatch(err) == IF err.isError THEN CaughtMessage(err) ELSE error

\* The catch leaves the chart's range alone.
RangeAfterCatch_Requested(i) == RangeOf(calls[i])

RangeAfterCatch(i) == chartDateRange

\* finally { setIsLoading(false) }
LoadingAfterCatch_OnlyErrors(err) == IF err.isError THEN FALSE ELSE isLoading

LoadingAfterCatch(err) == FALSE

\* fetchData's catch and finally, the promise rejected with err.
FetchRejectAt(i, err, t) ==
    /\ mounted /\ ~effectPending
    /\ i \in PendingCalls
    /\ Settle(i, IF err.isError THEN "rejected with Error" ELSE "rejected", err)
    /\ error' = ErrorAfterCatch(err)
    /\ chartDateRange' = RangeAfterCatch(i)
    /\ isLoading' = LoadingAfterCatch(err)
    /\ IF error' # error \/ chartDateRange' # chartDateRange \/ isLoading' # isLoading
       THEN RenderAt(address, period, t)
       ELSE NoRender
    /\ UNCHANGED <<address, period, metricsRes, header>>

FetchReject(i, err) == \E t \in Instants : FetchRejectAt(i, err, t)

Next ==
    \/ \E a \in Addresses : Navigate(a)
    \/ \E p \in TimePeriod : SetPeriod(p)
    \/ RunEffect
    \/ \E i \in 1..MaxFetches, s \in Snapshots : FetchResolve(i, s)
    \/ \E i \in 1..MaxFetches, err \in ErrorRejections \cup OtherRejections : FetchReject(i, err)

Spec == Init /\ [][Next]_vars

TypeOK ==
    /\ mounted \in BOOLEAN
    /\ address \in Addresses
    /\ period \in TimePeriod
    /\ isLoading \in BOOLEAN
    /\ now \in 0..MaxNow
    /\ Len(calls) <= MaxFetches
    /\ settled.call \in 0..Len(calls)

----------------------------------------------------------------------------
(* The dashboard of an address left to itself, for as long as it runs *)

\* The clock has no last instant.  The effect compares the range of a render
\* with the range of the render before it and with nothing older, so the
\* instants are counted modulo MaxNow + 1: a render reads the instant of the
\* previous render or another one.
LiveInstants == 0..MaxNow

\* The dashboard is opened on an address; afterwards the user changes neither
\* the address nor the period.
LiveInit == Init /\ address # ""

\* The log holds at most MaxFetches calls.  So that no effect ever waits for
\* room in the log, a render reads a new instant only when the log has room
\* for the call of the effect this schedules.
HasRoom == effectPending' => Len(calls') < MaxFetches

LiveRunEffect == \E t \in LiveInstants : RunEffectAt(t) /\ HasRoom

LiveFetchResolve(i, s) ==
    \E t \in LiveInstants : FetchResolveAt(i, s, t) /\ HasRoom

LiveFetchReject(i, err) ==
    \E t \in LiveInstants : FetchRejectAt(i, err, t) /\ HasRoom

\* The log drops its oldest call once that call has settled: nothing refers
\* to the promise any more.
Forget ==
    /\ calls # <<>>
    /\ Head(calls).status # "pending"
    /\ calls' = Tail(calls)
    /\ settled' = IF settled.call > 1
                  THEN [settled EXCEPT !.call = @ - 1]
                  ELSE [call |-> 0, value |-> Pending]
    /\ UNCHANGED <<mounted, address, period, isLoading, error, metricsRes,
                   chartDateRange, now, closure, effectPending, header>>

\* The promise of the i-th call of the log settles.
LiveSettles(i) ==
    \/ \E s \in Snapshots : LiveFetchResolve(i, s)
    \/ \E err \in ErrorRejections \cup OtherRejections : LiveFetchReject(i, err)

LiveNext ==
    \/ LiveRunEffect
    \/ \E i \in 1..MaxFetches, s \in Snapshots : LiveFetchResolve(i, s)
    \/ \E i \in 1..MaxFetches, err \in ErrorRejections \cup OtherRejections : LiveFetchReject(i, err)
    \/ Forget

\* React runs a scheduled effect; every promise settles, and its continuation
\* runs once the effects scheduled before it have run.
LiveFairness ==
    /\ WF_vars(LiveRunEffect)
    /\ WF_vars(Forget)
    /\ \A i \in 1..MaxFetches : SF_vars(LiveSettles(i))

LiveSpec == LiveInit /\ [][LiveNext]_vars /\ LiveFairness

----------------------------------------------------------------------------
(* Header on its own: rendered once with props drawn from bounded sets *)

SeqsUpTo(S, n) == UNION { [1..k -> S] : k \in 0..n }

\* Amounts: the unit and the least number whose successor is not
\* representable.
Amounts == {1, Pow2(Precision)}

EarningRecords == { [filAmount |-> a] : a \in Amounts }
NodeCountRecords == { [active |-> b, count |-> c] : b \in BOOLEAN, c \in {2, 5} }
UsageRecords == { [numBytes |-> 1, numRequests |-> Pow2(Precision)],
                  [numBytes |-> Pow2(Precision), numRequests |-> 1] }

HeaderInputs ==
    [earnings : SeqsUpTo(EarningRecords, MaxRecords),
     nodes    : SeqsUpTo(NodeCountRecords, MaxRecords),
     metrics  : SeqsUpTo(UsageRecords, MaxRecords)]

NoHeader == [rendered |-> FALSE]

HeaderInit ==
    /\ metricsRes \in HeaderInputs
    /\ header = NoHeader
    /\ mounted = TRUE
    /\ address = "f01"
    /\ period = "WEEK"
    /\ isLoading = FALSE
    /\ error = Null
    /\ now = 0
    /\ chartDateRange = periodToDateRange("WEEK", 0)
    /\ closure = [address |-> "f01", dateRange |-> periodToDateRange("WEEK", 0)]
    /\ effectPending = FALSE
    /\ calls = <<>>
    /\ settled = [call |-> 0, value |-> Pending]

\* Header({ metricsRes, ... }) runs.
HeaderRender ==
    /\ header = NoHeader
    /\ header' = Header(metricsRes)
    /\ UNCHANGED <<mounted, address, period, isLoading, error, metricsRes,
                   chartDateRange, now, closure, effectPending, calls, settled>>

HeaderNext == HeaderRender

HeaderSpec == HeaderInit /\ [][HeaderNext]_vars

----------------------------------------------------------------------------
(* Properties *)

Calls == 1..Len(calls)
RejectedStatus == {"rejected", "rejected with Error"}
lastDone == settled.call
ResolvedCalls == { i \in Calls : calls[i].status = "resolved" }
MountDateRange == periodToDateRange("WEEK", 0)

\* Call i settles in this step as a fulfilment / as a rejection.
Resolves(i) == calls[i].status = "pending" /\ calls'[i].status = "resolved"
Rejects(i) == calls[i].status = "pending" /\ calls'[i].status \in RejectedStatus

\* C1 as stated: in every reachable state, the initial one included,
\* chartDateRange is the range of a fetchMetrics call that has already
\* completed successfully.
C1_ChartRangeAlwaysFetched ==
    chartDateRange \in { RangeOf(calls[i]) : i \in ResolvedCalls }

\* C1, amended: chartDateRange is the range derived at mount or the range of
\* a fetchMetrics call that has completed successfully, and it changes only
\* in a step in which such a call completes.
C1_ChartRangeMountOrFetched ==
    /\ [](chartDateRange = MountDateRange
          \/ chartDateRange \in { RangeOf(calls[i]) : i \in ResolvedCalls })
    /\ [][chartDateRange' # chartDateRange
            => \E i \in Calls : Resolves(i) /\ chartDateRange' = RangeOf(calls[i])]_vars

\* The chart shows the range of a fetched snapshot after a request for
\* another range has failed.
C1_Witness ==
    /\ mounted
    /\ chartDateRange # MountDateRange
    /\ chartDateRange \in { RangeOf(calls[i]) : i \in ResolvedCalls }
    /\ \E i \in Calls : /\ calls[i].status \in RejectedStatus
                        /\ RangeOf(calls[i]) # chartDateRange
                        /\ RangeOf(calls[i]) # MountDateRange

\* C2: a successful completion replaces metrics by the returned snapshot and
\* sets chartDateRange to the range passed to that call, whatever the period
\* is by then; chartDateRange changes only in a step after which metrics is
\* the snapshot returned for the new range.
C2_ResolveSetsSnapshotAndRange ==
    [][/\ \A i \in Calls : Resolves(i) =>
              /\ metricsRes' = settled'.value
              /\ chartDateRange' = RangeOf(calls[i])
       /\ chartDateRange' # chartDateRange =>
              \E i \in Calls : /\ calls'[i].status = "resolved"
                               /\ RangeOf(calls'[i]) = chartDateRange'
                               /\ settled'.call = i
                               /\ settled'.value = metricsRes']_vars

\* The call that settled last succeeded after the period had been changed:
\* the chart shows that call's range, not the range of the selected period.
C2_Witness ==
    /\ mounted
    /\ lastDone \in ResolvedCalls
    /\ chartDateRange = RangeOf(calls[lastDone])
    /\ metricsRes = settled.value
    /\ chartDateRange # MountDateRange
    /\ \A t \in 0..MaxNow : periodToDateRange(period, t) # chartDateRange

\* C3 as stated: a rejection with an Error sets error to that Error's
\* message, clears isLoading and keeps metrics and chartDateRange.
C3_ErrorIsTheMessage ==
    [][\A i \in Calls : Rejects(i) /\ settled'.value.isError =>
           /\ error' = settled'.value.message
           /\ isLoading' = FALSE
           /\ metricsRes' = metricsRes
           /\ chartDateRange' = chartDateRange]_vars

\* C3, amended: a rejection with an Error sets error to that Error's message,
\* or to 'Error retrieving metrics.' when the Error has no message, clears
\* isLoading and keeps metrics and chartDateRange.
C3_ErrorIsTheMessageOrGeneric ==
    [][\A i \in Calls : Rejects(i) /\ settled'.value.isError =>
           /\ error' = IF settled'.value.message = UndefinedMessage
                       THEN "Error retrieving metrics."
                       ELSE settled'.value.message
           /\ isLoading' = FALSE
           /\ metricsRes' = metricsRes
           /\ chartDateRange' = chartDateRange]_vars

\* Stale data under the banner: the last call was rejected with Error("boom")
\* after an earlier one had delivered a snapshot.
C3_Witness ==
    /\ mounted
    /\ lastDone \in Calls
    /\ calls[lastDone].status = "rejected with Error"
    /\ settled.value = [isError |-> TRUE, message |-> "boom"]
    /\ error = "boom"
    /\ ~isLoading
    /\ metricsRes # EmptySnapshot
    /\ ResolvedCalls # {}

\* C4: every completion of a fetch clears isLoading, so isLoading is false
\* whenever a fetch has been issued and none is outstanding.
C4_CompletionClearsLoading ==
    /\ [][(\E i \in Calls : Resolves(i) \/ Rejects(i)) => isLoading' = FALSE]_vars
    /\ [](mounted /\ calls # <<>> /\ PendingCalls = {} => isLoading = FALSE)

\* All calls have settled, the last one with a value that is not an Error.
C4_Witness ==
    /\ mounted
    /\ Len(calls) >= 2
    /\ PendingCalls = {}
    /\ calls[lastDone].status = "rejected"
    /\ ~settled.value.isError
    /\ ~isLoading

\* C5: responses are applied in completion order: when the call that
\* settled last succeeded, metrics and chartDateRange are its snapshot and
\* its range, also when a call triggered later has completed before it.
C5_LastCompletionWins ==
    mounted /\ lastDone \in ResolvedCalls =>
        /\ metricsRes = settled.value
        /\ chartDateRange = RangeOf(calls[lastDone])

\* Two overlapping fetches have both succeeded, the one triggered first
\* completing last, with another range and another snapshot.
C5_Witness ==
    /\ mounted
    /\ lastDone \in ResolvedCalls
    /\ \E j \in ResolvedCalls :
          /\ j > lastDone
          /\ RangeOf(calls[j]) # RangeOf(calls[lastDone])
    /\ metricsRes = settled.value
    /\ chartDateRange = RangeOf(calls[lastDone])

\* The step is the effect of a render: fetchData runs up to its await.
EffectRuns == mounted /\ effectPending

\* C6: a trigger with a non-empty address sets isLoading, clears error and
\* calls fetchMetrics exactly once, with the current address and the start
\* and end of a range derived from the selected period; nothing else calls
\* fetchMetrics.
C6_TriggerIssuesOneFetch ==
    [][/\ EffectRuns /\ address # "" =>
            /\ isLoading' = TRUE
            /\ error' = Null
            /\ Len(calls') = Len(calls) + 1
            /\ \A i \in Calls : calls'[i] = calls[i]
            /\ LET c == calls'[Len(calls')] IN
                 /\ c.status = "pending"
                 /\ c.address = address
                 /\ \E t \in 0..now :
                        LET r == periodToDateRange(period, t) IN
                        /\ r # Undefined
                        /\ c.startDate = r.startDate
                        /\ c.endDate = r.endDate
       /\ Len(calls') # Len(calls) => EffectRuns /\ address # ""]_vars

\* A fetch is in flight for a period selected after an earlier fetch had
\* failed: the error of the earlier one has been cleared.
C6_Witness ==
    /\ mounted
    /\ Len(calls) = 2
    /\ calls[1].status = "rejected with Error"
    /\ calls[2].status = "pending"
    /\ calls[2].endDate - calls[2].startDate # calls[1].endDate - calls[1].startDate
    /\ isLoading
    /\ error = Null

\* C7: a trigger while the address is empty calls nothing and leaves
\* isLoading, error, metrics and chartDateRange as they are; no fetch is
\* issued before the address is non-empty, and until one is issued the state
\* is the initial one.
C7_EmptyAddressIsNoOp ==
    /\ [][/\ EffectRuns /\ address = "" =>
                /\ calls' = calls
                /\ isLoading' = isLoading
                /\ error' = error
                /\ metricsRes' = metricsRes
                /\ chartDateRange' = chartDateRange
          /\ Len(calls') # Len(calls) => address # ""]_vars
    /\ [](calls = <<>> =>
            /\ isLoading = TRUE
            /\ error = Null
            /\ metricsRes = EmptySnapshot
            /\ chartDateRange = MountDateRange)

\* The address became empty after a snapshot was loaded and a later fetch
\* failed; the trigger has fired and data, error and flag are as they were.
C7_Witness ==
    /\ mounted
    /\ address = ""
    /\ ~effectPending
    /\ PendingCalls = {}
    /\ metricsRes # EmptySnapshot
    /\ error # Null
    /\ ~isLoading

\* C8: a rejection with a value that is not an Error leaves error, metrics
\* and chartDateRange as they are and clears isLoading.
C8_NonErrorRejectionIsSwallowed ==
    [][\A i \in Calls : Rejects(i) /\ ~settled'.value.isError =>
           /\ error' = error
           /\ metricsRes' = metricsRes
           /\ chartDateRange' = chartDateRange
           /\ isLoading' = FALSE]_vars

\* The call that settled last was rejected with a value that is not an
\* Error: no error is shown and loading has stopped.
C8_Witness ==
    /\ mounted
    /\ lastDone \in Calls
    /\ calls[lastDone].status = "rejected"
    /\ ~settled.value.isError
    /\ error = Null
    /\ ~isLoading
    /\ ~effectPending

\* C9: isLoading is true whenever at least one fetch is outstanding.
C9_LoadingWhileOutstanding ==
    mounted /\ PendingCalls # {} => isLoading = TRUE

\* C10: the controller never holds a period for which no range is derived.
C10_PeriodAlwaysHasRange ==
    periodToDateRange(period, now) # Undefined

\* A fetch is scheduled: the render of this step changed the effect's
\* dependencies while the address is non-empty.
SchedulesFetch == mounted' /\ effectPending' /\ closure'.address # ""

\* C13: after the mount, a fetch is issued only when the address or the
\* selected period changes; a render with both unchanged, caused by the
\* controller's own state updates, schedules no fetch.
C13_FetchOnlyOnAddressOrPeriodChange ==
    [][address' = address /\ period' = period => ~SchedulesFetch]_vars

\* The last triggered fetch, 0 if none.
lastTriggered == Len(calls)

\* C15: when no fetch is outstanding, the address is non-empty and the most
\* recently triggered fetch succeeded, chartDateRange is the range of that
\* fetch, and metrics is its snapshot.
C15_ShowsLatestTriggered ==
    /\ mounted
    /\ PendingCalls = {}
    /\ address # ""
    /\ lastTriggered \in ResolvedCalls
    => /\ chartDateRange = RangeOf(calls[lastTriggered])
       /\ lastDone = lastTriggered => metricsRes = settled.value

\* C16: when no fetch is outstanding and an error is shown, the most
\* recently triggered fetch was rejected with an Error.
C16_ErrorIsOfLatestTriggered ==
    mounted /\ PendingCalls = {} /\ error # Null =>
        /\ lastTriggered \in Calls
        /\ calls[lastTriggered].status = "rejected with Error"

\* The count of the first record of nodes whose active is b, 0 if none.
FirstCount(nodes, b) ==
    LET I == { i \in DOMAIN nodes : nodes[i].active = b } IN
    IF I = {} THEN 0 ELSE nodes[CHOOSE i \in I : \A j \in I : i <= j].count

\* C11: the active node count is the count of the first record with
\* active = true, the inactive node count that of the first record with
\* active = false, each 0 when there is no such record.
C11_NodeCountsAreFirstMatch ==
    header # NoHeader =>
        /\ header.numActiveNodes = FirstCount(metricsRes.nodes, TRUE)
        /\ header.numInactiveNodes = FirstCount(metricsRes.nodes, FALSE)

\* Two active records with different counts, then an inactive one: the
\* first active count and the inactive count are shown.
C11_Witness ==
    /\ header # NoHeader
    /\ Len(metricsRes.nodes) = 3
    /\ metricsRes.nodes[1].active /\ metricsRes.nodes[2].active
    /\ ~metricsRes.nodes[3].active
    /\ metricsRes.nodes[1].count # metricsRes.nodes[2].count
    /\ header.numActiveNodes = metricsRes.nodes[1].count
    /\ header.numInactiveNodes = metricsRes.nodes[3].count

RECURSIVE Sum(_)
Sum(xs) == IF xs = <<>> THEN 0 ELSE Head(xs) + Sum(Tail(xs))

Permutations(xs) ==
    { [i \in DOMAIN xs |-> xs[q[i]]] :
        q \in { f \in [DOMAIN xs -> DOMAIN xs] :
                  \A i, j \in DOMAIN xs : f[i] = f[j] => i = j } }

\* C12: the three totals are the sums of filAmount, numBytes and numRequests
\* over all records, and permuting the earnings or usage records changes
\* none of them.
C12_TotalsAreOrderIndependentSums ==
    header # NoHeader =>
        LET m == metricsRes IN
        /\ header.totalEarnings = Sum([i \in DOMAIN m.earnings |-> m.earnings[i].filAmount])
        /\ header.totalBandwidth = Sum([i \in DOMAIN m.metrics |-> m.metrics[i].numBytes])
        /\ header.totalRetrievals = Sum([i \in DOMAIN m.metrics |-> m.metrics[i].numRequests])
        /\ \A e \in Permutations(m.earnings), u \in Permutations(m.metrics) :
              LET h == Header([m EXCEPT !.earnings = e, !.metrics = u]) IN
              /\ h.totalEarnings = header.totalEarnings
              /\ h.totalBandwidth = header.totalBandwidth
              /\ h.totalRetrievals = header.totalRetrievals

\* C14 as stated: when the user makes only finitely many address and period
\* changes (in LiveSpec: none after the dashboard is opened) and every
\* issued fetch completes, the controller eventually reaches, and stays in,
\* a state with no fetch outstanding and isLoading false.
C14_EventuallyQuiescent == <>[](PendingCalls = {} /\ ~isLoading)

====
